---- MODULE Spec2Model ----
(***************************************************************************)
(* grant-dao: a CosmWasm contract in which weighted members propose a      *)
(* payment from the contract's balance, vote on it, and execute it.        *)
(* The model follows src/src/contract.rs handler by handler.  The stores   *)
(* MEMBERS and PROPOSALS are finite maps, the bank balance of the contract *)
(* is a number, and every invocation records the message it handled and    *)
(* the Result it returned.                                                 *)
(***************************************************************************)
EXTENDS Integers, Sequences, FiniteSets, TLC

(* ---------------------------- bounds ----------------------------------- *)
\* largest member weight offered to instantiate
MaxWeight == 2
\* largest amount a Propose message asks for
MaxAmount == 1
\* largest bank balance the contract is funded to
MaxBalance == 1
\* longest member list handed to instantiate
MaxMembers == 2
\* number of successful Propose calls followed
MaxProposals == 2
\* Uint128::MAX scaled down to the model's weights: a sum above it panics
Uint128Max == 3

(* ---------------------------- values ----------------------------------- *)
Addrs == {"addr1", "addr2"}
\* the recipients a Propose message names
Recipients == {"recipient_address"}
Titles == {"Some Title"}
Descriptions == {"Some Description"}
\* the proposal_id a Vote / Execute message names: 0 is the only key
\* execute_propose ever writes, 1 stands for every other u64
Ids == {0, 1}
DENOM == "udevcore"

\* Option<T> is a sequence of length 0 (None) or 1 (Some(v))
None == <<>>
Some(v) == <<v>>
Option(S) == {None} \cup {Some(v) : v \in S}
unwrap_or(opt, d) == IF opt = None THEN d ELSE opt[1]

\* ContractError (and the panic of a checked Uint128 addition)
Ok == "Ok"
Unauthorized == "Unauthorized"
ProposalDoesNotExist == "ProposalDoesNotExist"
MemberAlreadyVoted == "MemberAlreadyVoted"
AlreadyExecuted == "AlreadyExecuted"
InsufficientFunds == "InsufficientFunds"
StdNotFound == "Std(NotFound)"
PanicOverflow == "panic(overflow)"

\* ExecuteMsg
ProposeMsg(t, d, r, a) ==
    [type |-> "Propose", title |-> t, description |-> d, recipient |-> r, amount |-> a]
VoteMsg(id, approve) == [type |-> "Vote", proposal_id |-> id, approve |-> approve]
ExecuteMsgExecute(id) == [type |-> "Execute", proposal_id |-> id]

\* Map::save and Map::load / has
Save(map, k, v) == [x \in (DOMAIN map) \cup {k} |-> IF x = k THEN v ELSE map[x]]
Has(map, k) == k \in DOMAIN map
EmptyMap == [x \in {} |-> 0]

\* BankMsg::Send with one Coin of DENOM
BankSend(to, amt) == [to_address |-> to, denom |-> DENOM, amount |-> amt]

(* ---------------------------- state ------------------------------------ *)
VARIABLES
    members,      \* MEMBERS: Addr -> Member.weight
    proposals,    \* PROPOSALS: u64 -> Proposal
    balance,      \* bank balance of the contract in DENOM
    request,      \* the last invocation: [sender, msg]
    result,       \* what it returned: [err, messages, attributes]
    created,      \* history: number of Propose calls that returned Ok
    sent,         \* history: proposal_id -> number of BankMsg::Send emitted
    executedIds,  \* history: ids on which Execute returned Ok and set executed
    ballots       \* history: proposal_id -> (voter -> approve) of the stored proposal

vars == <<members, proposals, balance, request, result, created, sent, executedIds, ballots>>

(* ---------------------------- instantiate ------------------------------ *)
MemberEntry == [address : Addrs, weight : 0..MaxWeight]

RECURSIVE instantiate_loop(_, _, _)
instantiate_loop(store, list, i) ==
    IF i > Len(list) THEN store
    ELSE instantiate_loop(Save(store, list[i].address, list[i].weight), list, i + 1)

instantiate(msg_members) == instantiate_loop(EmptyMap, msg_members, 1)

MemberLists == UNION {[1..n -> MemberEntry] : n \in 0..MaxMembers}

(* ---------------------------- handlers --------------------------------- *)
\* Each handler maps the storage it is given to the storage it leaves and the
\* Result it returns: [err, proposals, messages, attributes].

\* return Err(e): nothing was saved, no Response is returned
Fail(e, store) == [err |-> e, proposals |-> store, messages |-> <<>>, attributes |-> <<>>]

\* mutation: the membership check is missing
IsMember_Always(mem, sender) == TRUE

\* MEMBERS.load(deps.storage, info.sender) succeeds
IsMember(mem, sender) == Has(mem, sender)

\* the identifier execute_propose gives the new proposal
NewProposalId(store) == 0

\* mutation: the recipient of the message is ignored
NewProposal_RecipientSender(id, sender, title, description, recipient, amount) ==
    [id |-> id,
     title |-> title,
     description |-> description,
     votes_for |-> 0,
     votes_against |-> 0,
     voters |-> {},
     executed |-> FALSE,
     amount |-> unwrap_or(amount, 0),
     recipient |-> sender]

\* the Proposal literal of execute_propose
NewProposal(id, sender, title, description, recipient, amount) ==
    [id |-> id,
     title |-> title,
     description |-> description,
     votes_for |-> 0,
     votes_against |-> 0,
     voters |-> {},
     executed |-> FALSE,
     amount |-> unwrap_or(amount, 0),
     recipient |-> unwrap_or(recipient, sender)]

execute_propose(store, mem, sender, title, description, recipient, amount) ==
    IF ~IsMember(mem, sender) THEN Fail(Unauthorized, store)
    ELSE LET proposal == NewProposal(NewProposalId(store), sender, title,
                                     description, recipient, amount)
         IN [err |-> Ok,
             proposals |-> Save(store, proposal.id, proposal),
             messages |-> <<>>,
             attributes |-> <<>>]

\* mutation: the double-vote check is missing
AlreadyVoted_Never(proposal, sender) == FALSE

\* proposal.voters.contains(&info.sender)
AlreadyVoted(proposal, sender) == sender \in proposal.voters

\* mutation: the weight goes to votes_for whatever the vote
Tally_IgnoresApprove(proposal, weight, approve) ==
    [proposal EXCEPT !.votes_for = @ + weight]

\* the tally update of execute_vote
Tally(proposal, weight, approve) ==
    IF approve THEN [proposal EXCEPT !.votes_for = @ + weight]
    ELSE [proposal EXCEPT !.votes_against = @ + weight]

\* Uint128 += panics when the sum does not fit
Overflows(proposal) ==
    proposal.votes_for > Uint128Max \/ proposal.votes_against > Uint128Max

\* mutation: the proposal is loaded before the member
execute_vote_LoadsProposalFirst(store, mem, sender, proposal_id, approve) ==
    IF ~Has(store, proposal_id) THEN Fail(ProposalDoesNotExist, store)
    ELSE IF ~IsMember(mem, sender) THEN Fail(Unauthorized, store)
    ELSE IF AlreadyVoted(store[proposal_id], sender) THEN Fail(MemberAlreadyVoted, store)
    ELSE LET tallied == Tally(store[proposal_id], mem[sender], approve)
         IN IF Overflows(tallied) THEN Fail(PanicOverflow, store)
            ELSE [err |-> Ok,
                  proposals |-> Save(store, proposal_id,
                                     [tallied EXCEPT !.voters = @ \cup {sender}]),
                  messages |-> <<>>,
                  attributes |-> <<>>]

\* mutation: votes on an executed proposal are refused
execute_vote_RefusesExecuted(store, mem, sender, proposal_id, approve) ==
    IF ~IsMember(mem, sender) THEN Fail(Unauthorized, store)
    ELSE IF ~Has(store, proposal_id) THEN Fail(ProposalDoesNotExist, store)
    ELSE IF store[proposal_id].executed THEN Fail(AlreadyExecuted, store)
    ELSE IF AlreadyVoted(store[proposal_id], sender) THEN Fail(MemberAlreadyVoted, store)
    ELSE LET tallied == Tally(store[proposal_id], mem[sender], approve)
         IN IF Overflows(tallied) THEN Fail(PanicOverflow, store)
            ELSE [err |-> Ok,
                  proposals |-> Save(store, proposal_id,
                                     [tallied EXCEPT !.voters = @ \cup {sender}]),
                  messages |-> <<>>,
                  attributes |-> <<>>]

execute_vote(store, mem, sender, proposal_id, approve) ==
    IF ~IsMember(mem, sender) THEN Fail(Unauthorized, store)
    ELSE IF ~Has(store, proposal_id) THEN Fail(ProposalDoesNotExist, store)
    ELSE IF AlreadyVoted(store[proposal_id], sender) THEN Fail(MemberAlreadyVoted, store)
    ELSE LET tallied == Tally(store[proposal_id], mem[sender], approve)
         IN IF Overflows(tallied) THEN Fail(PanicOverflow, store)
            ELSE [err |-> Ok,
                  proposals |-> Save(store, proposal_id,
                                     [tallied EXCEPT !.voters = @ \cup {sender}]),
                  messages |-> <<>>,
                  attributes |-> <<>>]

\* mutation: a tie passes
Passed_OrTie(proposal) == proposal.votes_for >= proposal.votes_against

\* the tally rule of execute_execute
Passed(proposal) == proposal.votes_for > proposal.votes_against

\* mutation: the balance is not checked
Insufficient_Never(bal, proposal) == FALSE

\* mutation: a balance equal to the amount is refused
Insufficient_OrEqual(bal, proposal) == bal <= proposal.amount

\* query_balance(env.contract.address, DENOM).amount < proposal.amount
Insufficient(bal, proposal) == bal < proposal.amount

\* mutation: a BankMsg::Send is emitted for a zero amount too
Transfer_Always(proposal) == <<BankSend(proposal.recipient, proposal.amount)>>

\* the messages of the Response: one BankMsg::Send unless the amount is zero
Transfer(proposal) ==
    IF proposal.amount # 0
    THEN <<BankSend(proposal.recipient, proposal.amount)>>
    ELSE <<>>

\* mutation: executed is set and saved before the balance is checked
execute_execute_SavesFirst(store, bal, proposal_id) ==
    IF ~Has(store, proposal_id) THEN Fail(StdNotFound, store)
    ELSE LET proposal == store[proposal_id]
             saved == Save(store, proposal_id, [proposal EXCEPT !.executed = TRUE])
         IN
         IF proposal.executed THEN Fail(AlreadyExecuted, store)
         ELSE IF Passed(proposal)
              THEN IF Insufficient(bal, proposal) THEN Fail(InsufficientFunds, saved)
                   ELSE [err |-> Ok,
                         proposals |-> saved,
                         messages |-> Transfer(proposal),
                         attributes |-> << <<"method", "execute_execute">>,
                                           <<"recipient", proposal.recipient>>,
                                           <<"amount", proposal.amount>> >>]
              ELSE [err |-> Ok, proposals |-> store,
                    messages |-> <<>>, attributes |-> <<>>]

execute_execute(store, bal, proposal_id) ==
    IF ~Has(store, proposal_id) THEN Fail(StdNotFound, store)
    ELSE LET proposal == store[proposal_id] IN
         IF proposal.executed THEN Fail(AlreadyExecuted, store)
         ELSE IF Passed(proposal)
              THEN IF Insufficient(bal, proposal) THEN Fail(InsufficientFunds, store)
                   ELSE [err |-> Ok,
                         proposals |-> Save(store, proposal_id,
                                            [proposal EXCEPT !.executed = TRUE]),
                         messages |-> Transfer(proposal),
                         attributes |-> << <<"method", "execute_execute">>,
                                           <<"recipient", proposal.recipient>>,
                                           <<"amount", proposal.amount>> >>]
              ELSE [err |-> Ok, proposals |-> store,
                    messages |-> <<>>, attributes |-> <<>>]

(* ---------------------------- actions ---------------------------------- *)
Init ==
    /\ \E list \in MemberLists : members = instantiate(list)
    /\ proposals = EmptyMap
    /\ balance = 0
    /\ request = [sender |-> "creator", msg |-> [type |-> "Instantiate"]]
    /\ result = [err |-> Ok, messages |-> <<>>, attributes |-> <<"action", "instantiate">>]
    /\ created = 0
    /\ sent = EmptyMap
    /\ executedIds = {}
    /\ ballots = EmptyMap

Returned(r) ==
    result' = [err |-> r.err, messages |-> r.messages, attributes |-> r.attributes]

Propose(sender, title, description, recipient, amount) ==
    LET r == execute_propose(proposals, members, sender, title, description,
                             recipient, amount)
    IN /\ created < MaxProposals
       /\ request' = [sender |-> sender,
                      msg |-> ProposeMsg(title, description, recipient, amount)]
       /\ Returned(r)
       /\ proposals' = r.proposals
       /\ created' = IF r.err = Ok THEN created + 1 ELSE created
       /\ ballots' = IF r.err = Ok THEN Save(ballots, NewProposalId(proposals), EmptyMap)
                     ELSE ballots
       /\ UNCHANGED <<members, balance, sent, executedIds>>

\* mutation: a vote by a stranger enrols them with weight 1
Vote_EnrolsSender(sender, proposal_id, approve) ==
    LET r == execute_vote(proposals, members, sender, proposal_id, approve)
    IN /\ request' = [sender |-> sender, msg |-> VoteMsg(proposal_id, approve)]
       /\ Returned(r)
       /\ proposals' = r.proposals
       /\ ballots' = IF r.err = Ok
                     THEN Save(ballots, proposal_id,
                               Save(ballots[proposal_id], sender, approve))
                     ELSE ballots
       /\ members' = IF r.err = Unauthorized THEN Save(members, sender, 1) ELSE members
       /\ UNCHANGED <<balance, created, sent, executedIds>>

Vote(sender, proposal_id, approve) ==
    LET r == execute_vote(proposals, members, sender, proposal_id, approve)
    IN /\ request' = [sender |-> sender, msg |-> VoteMsg(proposal_id, approve)]
       /\ Returned(r)
       /\ proposals' = r.proposals
       /\ ballots' = IF r.err = Ok
                     THEN Save(ballots, proposal_id,
                               Save(ballots[proposal_id], sender, approve))
                     ELSE ballots
       /\ UNCHANGED <<members, balance, created, sent, executedIds>>

\* the amount the bank moves out of the contract for the emitted messages
RECURSIVE Outgoing(_)
Outgoing(messages) ==
    IF messages = <<>> THEN 0 ELSE Head(messages).amount + Outgoing(Tail(messages))

\* mutation: only members may execute
Execute_MembersOnly(sender, proposal_id) ==
    LET r == IF IsMember(members, sender)
             THEN execute_execute(proposals, balance, proposal_id)
             ELSE Fail(Unauthorized, proposals)
        setExecuted == /\ r.err = Ok
                       /\ Has(r.proposals, proposal_id)
                       /\ r.proposals[proposal_id].executed
    IN /\ request' = [sender |-> sender, msg |-> ExecuteMsgExecute(proposal_id)]
       /\ Returned(r)
       /\ proposals' = r.proposals
       /\ balance' = balance - Outgoing(r.messages)
       /\ sent' = IF r.messages # <<>>
                  THEN Save(sent, proposal_id,
                            (IF Has(sent, proposal_id) THEN sent[proposal_id] ELSE 0)
                                + Len(r.messages))
                  ELSE sent
       /\ executedIds' = IF setExecuted THEN executedIds \cup {proposal_id}
                         ELSE executedIds
       /\ UNCHANGED <<members, created, ballots>>

Execute(sender, proposal_id) ==
    LET r == execute_execute(proposals, balance, proposal_id)
        setExecuted == /\ r.err = Ok
                       /\ Has(r.proposals, proposal_id)
                       /\ r.proposals[proposal_id].executed
    IN /\ request' = [sender |-> sender, msg |-> ExecuteMsgExecute(proposal_id)]
       /\ Returned(r)
       /\ proposals' = r.proposals
       /\ balance' = balance - Outgoing(r.messages)
       /\ sent' = IF r.messages # <<>>
                  THEN Save(sent, proposal_id,
                            (IF Has(sent, proposal_id) THEN sent[proposal_id] ELSE 0)
                                + Len(r.messages))
                  ELSE sent
       /\ executedIds' = IF setExecuted THEN executedIds \cup {proposal_id}
                         ELSE executedIds
       /\ UNCHANGED <<members, created, ballots>>

\* someone sends coins of DENOM to the contract (bank module, outside the contract)
Fund(n) ==
    /\ balance + n <= MaxBalance
    /\ balance' = balance + n
    /\ UNCHANGED <<members, proposals, request, result, created, sent, executedIds, ballots>>

Next ==
    \/ \E s \in Addrs, t \in Titles, d \in Descriptions,
          r \in Option(Recipients), a \in Option(0..MaxAmount) : Propose(s, t, d, r, a)
    \/ \E s \in Addrs, id \in Ids, approve \in BOOLEAN : Vote(s, id, approve)
    \/ \E s \in Addrs, id \in Ids : Execute(s, id)
    \/ \E n \in 1..MaxBalance : Fund(n)

Spec == Init /\ [][Next]_vars

(* ---------------------------- steps ------------------------------------ *)
\* a step is an invocation of the named handler
ProposeStep ==
    \E s \in Addrs, t \in Titles, d \in Descriptions,
       r \in Option(Recipients), a \in Option(0..MaxAmount) : Propose(s, t, d, r, a)
VoteStep(s, id) == \E approve \in BOOLEAN : Vote(s, id, approve)
ExecuteStep(id) == \E s \in Addrs : Execute(s, id)

Stored(id) == Has(proposals, id)
IsExecute(id) == request.msg.type = "Execute" /\ request.msg.proposal_id = id
IsVote(id) == request.msg.type = "Vote" /\ request.msg.proposal_id = id

(* ---------------------------- C1 --------------------------------------- *)
\* C1: execute is exactly-once per proposal id: once an Execute on id i has
\* returned Ok and set executed, every later Execute on i returns
\* AlreadyExecuted, and at most one BankMsg::Send is ever emitted for i.
C1_ExecuteExactlyOnce ==
    [][ /\ \A i \in Ids :
             (i \in executedIds /\ ExecuteStep(i)) => result'.err = AlreadyExecuted
        /\ \A i \in DOMAIN sent' : sent'[i] <= 1 ]_vars

(* ---------------------------- C2 --------------------------------------- *)
\* C2: the executed flag of the proposal stored under an id is monotone: once
\* true it is true in every later state.
C2_ExecutedMonotone ==
    [][ \A i \in DOMAIN proposals :
          proposals[i].executed => (i \in DOMAIN proposals' /\ proposals'[i].executed) ]_vars

(* ---------------------------- C3 --------------------------------------- *)
\* C3: a successful Propose uses an identifier no stored proposal has, so it
\* overwrites nothing and the number of stored proposals equals the number of
\* successful Propose calls.
C3_UniqueIds ==
    [][ (ProposeStep /\ result'.err = Ok) =>
          /\ \A i \in DOMAIN proposals :
                i \in DOMAIN proposals' /\ proposals'[i] = proposals[i]
          /\ Cardinality(DOMAIN proposals') = created' ]_vars

(* ---------------------------- C4 --------------------------------------- *)
\* the sum of the weights of a set of members
RECURSIVE WeightSum(_)
WeightSum(S) ==
    IF S = {} THEN 0
    ELSE LET a == CHOOSE x \in S : TRUE
         IN (IF Has(members, a) THEN members[a] ELSE 0) + WeightSum(S \ {a})

\* the voters of the stored proposal who voted approve / reject
VotedAs(id, approve) ==
    {v \in proposals[id].voters :
        /\ Has(ballots, id)
        /\ Has(ballots[id], v)
        /\ ballots[id][v] = approve}

\* C4: for every stored proposal votes_for is the sum of the weights of the
\* voters who approved, votes_against the sum over those who rejected, and
\* their total the sum over the voters set, each member counted once.
C4_TallyIsWeightSum ==
    \A i \in DOMAIN proposals :
        /\ proposals[i].votes_for = WeightSum(VotedAs(i, TRUE))
        /\ proposals[i].votes_against = WeightSum(VotedAs(i, FALSE))
        /\ proposals[i].votes_for + proposals[i].votes_against
              = WeightSum(proposals[i].voters)

\* a proposal with an approving and a rejecting voter of different weights
C4_Witness ==
    \E i \in DOMAIN proposals :
        /\ VotedAs(i, TRUE) # {} /\ VotedAs(i, FALSE) # {}
        /\ proposals[i].votes_for = 2 /\ proposals[i].votes_against = 1

(* ---------------------------- C5 --------------------------------------- *)
\* C5: a Vote (approve or reject) by a member already in the voters set of
\* the stored proposal returns MemberAlreadyVoted and leaves the proposal
\* store as it was.
C5_DoubleVoteRejected ==
    [][ (/\ request'.msg.type = "Vote"
         /\ Stored(request'.msg.proposal_id)
         /\ request'.sender \in proposals[request'.msg.proposal_id].voters
         /\ Vote(request'.sender, request'.msg.proposal_id, request'.msg.approve)) =>
            /\ result'.err = MemberAlreadyVoted
            /\ proposals' = proposals ]_vars

\* a second vote was refused; the voter's first vote is still the one counted
C5_Witness ==
    \E i \in DOMAIN proposals :
        /\ IsVote(i) /\ result.err = MemberAlreadyVoted
        /\ request.sender \in proposals[i].voters
        /\ ballots[i][request.sender] # request.msg.approve
        /\ members[request.sender] > 0

(* ---------------------------- C6 --------------------------------------- *)
\* C6: Execute on a stored, not yet executed proposal with
\* votes_for <= votes_against returns Ok, leaves the proposal store unchanged
\* and emits no message; it changes the store or emits a transfer only when
\* votes_for > votes_against.
C6_ExecuteNeedsMajority ==
    [][ \A i \in Ids :
          (Stored(i) /\ ~proposals[i].executed /\ ExecuteStep(i)) =>
              /\ (proposals[i].votes_for <= proposals[i].votes_against =>
                     /\ result'.err = Ok
                     /\ proposals' = proposals
                     /\ result'.messages = <<>>
                     /\ balance' = balance)
              /\ ((proposals' # proposals \/ result'.messages # <<>>) =>
                     proposals[i].votes_for > proposals[i].votes_against) ]_vars

\* an Execute on a tied proposal with votes on both sides was a no-op
C6_Witness ==
    \E i \in DOMAIN proposals :
        /\ IsExecute(i) /\ result.err = Ok /\ result.messages = <<>>
        /\ ~proposals[i].executed
        /\ proposals[i].votes_for = proposals[i].votes_against
        /\ proposals[i].votes_for > 0
        /\ proposals[i].amount > 0 /\ balance >= proposals[i].amount

(* ---------------------------- C7 --------------------------------------- *)
\* C7: Execute on an open, passed proposal while the balance is below amount
\* returns InsufficientFunds and leaves the proposal unmodified; the next
\* Execute on it, once the balance has risen to at least amount and nothing
\* else was invoked in between, returns Ok, sets executed and emits the
\* transfer.
C7_InsufficientFundsRetry ==
    [][ \A i \in Ids :
          (Stored(i) /\ ~proposals[i].executed
               /\ proposals[i].votes_for > proposals[i].votes_against
               /\ ExecuteStep(i)) =>
              /\ (balance < proposals[i].amount =>
                     /\ result'.err = InsufficientFunds
                     /\ proposals' = proposals
                     /\ result'.messages = <<>>)
              /\ ((IsExecute(i) /\ result.err = InsufficientFunds
                      /\ balance >= proposals[i].amount) =>
                     /\ result'.err = Ok
                     /\ proposals'[i] = [proposals[i] EXCEPT !.executed = TRUE]
                     /\ result'.messages =
                           <<BankSend(proposals[i].recipient, proposals[i].amount)>>) ]_vars

\* the funds arrived after an Execute failed with InsufficientFunds
C7_Witness ==
    \E i \in DOMAIN proposals :
        /\ IsExecute(i) /\ result.err = InsufficientFunds
        /\ ~proposals[i].executed
        /\ balance >= proposals[i].amount

(* ---------------------------- C8 --------------------------------------- *)
\* C8: an invocation of Propose, Vote or Execute that returns an error leaves
\* MEMBERS and PROPOSALS as they were and emits no message: no message is
\* returned, none is counted as sent and nothing leaves the balance.
C8_FailureHasNoEffect ==
    [][ result'.err # Ok =>
            /\ members' = members
            /\ proposals' = proposals
            /\ result'.messages = <<>>
            /\ sent' = sent
            /\ balance' >= balance ]_vars

\* an Execute failed on a stored proposal that had passed
C8_Witness ==
    \E i \in DOMAIN proposals :
        /\ IsExecute(i) /\ result.err = InsufficientFunds
        /\ proposals[i].votes_for > proposals[i].votes_against
        /\ ~proposals[i].executed

(* ---------------------------- C9 --------------------------------------- *)
\* C9: the amount stored under a proposal id never changes after the proposal
\* is created.
C9_AmountFixed ==
    [][ \A i \in DOMAIN proposals :
          i \in DOMAIN proposals' /\ proposals'[i].amount = proposals[i].amount ]_vars

(* ---------------------------- C10 -------------------------------------- *)
\* C10: for every proposal id the voters set only grows and votes_for and
\* votes_against never decrease.
C10_VotesOnlyGrow ==
    [][ \A i \in DOMAIN proposals :
          /\ i \in DOMAIN proposals'
          /\ proposals[i].voters \subseteq proposals'[i].voters
          /\ proposals'[i].votes_for >= proposals[i].votes_for
          /\ proposals'[i].votes_against >= proposals[i].votes_against ]_vars

(* ---------------------------- C11 -------------------------------------- *)
IsPropose == request.msg.type = "Propose"

\* C11: Propose returns Unauthorized exactly when the caller is not in
\* MEMBERS; it has no other error, and in every reachable state a Propose by
\* any member, with any message, returns Ok.
C11_ProposeAuthorization ==
    /\ \A s \in Addrs, t \in Titles, d \in Descriptions,
          r \in Option(Recipients), a \in Option(0..MaxAmount) :
          LET e == execute_propose(proposals, members, s, t, d, r, a).err
          IN /\ (e = Unauthorized) <=> (s \notin DOMAIN members)
             /\ e \in {Ok, Unauthorized}
             /\ (s \in DOMAIN members) => e = Ok
    /\ IsPropose =>
          /\ (result.err = Unauthorized) <=> (request.sender \notin DOMAIN members)
          /\ result.err \in {Ok, Unauthorized}

\* a member proposed again after the proposal under id 0 had been executed
C11_Witness ==
    /\ IsPropose /\ result.err = Ok
    /\ request.sender \in DOMAIN members
    /\ 0 \in executedIds
    /\ DOMAIN members # Addrs

(* ---------------------------- C12 -------------------------------------- *)
\* C12: after a Propose that returned Ok a proposal is stored with zero
\* tallies, no voters, executed = false, the recipient of the message or the
\* caller when it names none, the amount of the message or zero when it names
\* none; the Response carries no message.
C12_ProposeStoresFreshProposal ==
    (IsPropose /\ result.err = Ok) =>
        /\ result.messages = <<>>
        /\ \E i \in DOMAIN proposals :
              /\ proposals[i].id = i
              /\ proposals[i].title = request.msg.title
              /\ proposals[i].description = request.msg.description
              /\ proposals[i].votes_for = 0
              /\ proposals[i].votes_against = 0
              /\ proposals[i].voters = {}
              /\ proposals[i].executed = FALSE
              /\ proposals[i].recipient =
                    (IF Len(request.msg.recipient) = 0 THEN request.sender
                     ELSE request.msg.recipient[1])
              /\ proposals[i].amount =
                    (IF Len(request.msg.amount) = 0 THEN 0
                     ELSE request.msg.amount[1])

\* the second successful Propose named a recipient and an amount
C12_Witness ==
    /\ IsPropose /\ result.err = Ok
    /\ request.msg.recipient = Some("recipient_address")
    /\ request.msg.amount = Some(1)
    /\ created = 2

(* ---------------------------- C13 -------------------------------------- *)
\* C13: Execute on an open proposal with votes_for > votes_against and
\* amount = 0 returns Ok whatever the balance, sets executed and emits no
\* message.
C13_ZeroAmountExecutes ==
    [][ \A i \in Ids :
          (Stored(i) /\ ~proposals[i].executed
              /\ proposals[i].votes_for > proposals[i].votes_against
              /\ proposals[i].amount = 0
              /\ ExecuteStep(i)) =>
             /\ result'.err = Ok
             /\ proposals'[i] = [proposals[i] EXCEPT !.executed = TRUE]
             /\ result'.messages = <<>>
             /\ balance' = balance
             /\ sent' = sent ]_vars

\* a zero-amount proposal was executed while the contract held no coins
C13_Witness ==
    \E i \in DOMAIN proposals :
        /\ IsExecute(i) /\ result.err = Ok
        /\ proposals[i].executed /\ proposals[i].amount = 0
        /\ result.attributes # <<>>
        /\ result.messages = <<>>
        /\ balance = 0

(* ---------------------------- queries ---------------------------------- *)
\* pagination info for queries
MAX_PAGE_LIMIT == 250

Min(a, b) == IF a <= b THEN a ELSE b

\* QueryMsg
GetProposalMsg(id) == [type |-> "GetProposal", proposal_id |-> id]
ListProposalsMsg(start_after, limit) ==
    [type |-> "ListProposals", start_after |-> start_after, limit |-> limit]
GetMemberMsg(address) == [type |-> "GetMember", address |-> address]
ListMembersMsg(start_after, limit) ==
    [type |-> "ListMembers", start_after |-> start_after, limit |-> limit]

\* limit.unwrap_or(MAX_PAGE_LIMIT).min(MAX_PAGE_LIMIT)
PageLimit(limit) == Min(unwrap_or(limit, MAX_PAGE_LIMIT), MAX_PAGE_LIMIT)

\* the largest key of a store (0 for the empty store)
LastKey(store) ==
    IF DOMAIN store = {} THEN 0
    ELSE CHOOSE k \in DOMAIN store : \A x \in DOMAIN store : x <= k

\* PROPOSALS.range(start, None, Ascending).map(|(_, p)| p): the stored values
\* with key in lo..hi in ascending key order (the scan is split in halves to
\* keep the evaluation shallow)
RECURSIVE range(_, _, _)
range(store, lo, hi) ==
    IF lo > hi THEN <<>>
    ELSE IF lo = hi THEN (IF Has(store, lo) THEN <<store[lo]>> ELSE <<>>)
    ELSE LET mid == (lo + hi) \div 2
         IN range(store, lo, mid) \o range(store, mid + 1, hi)

\* Iterator::take
take(seq, n) == SubSeq(seq, 1, Min(n, Len(seq)))

\* mutation: the cursor is an inclusive bound
query_list_proposals_Inclusive(store, start_after, limit) ==
    LET first == IF start_after = None THEN 0 ELSE start_after[1]
    IN take(range(store, first, LastKey(store)), PageLimit(limit))

query_list_proposals(store, start_after, limit) ==
    LET first == IF start_after = None THEN 0 ELSE start_after[1] + 1
    IN take(range(store, first, LastKey(store)), PageLimit(limit))

\* the byte order of the Addr keys of MEMBERS
AddrOrder == <<"addr1", "addr2">>
Rank(a) == CHOOSE j \in 1..Len(AddrOrder) : AddrOrder[j] = a

\* MEMBERS.range(start, None, Ascending).take(limit).map(|(_, m)| m)
RECURSIVE range_take_members(_, _, _)
range_take_members(mem, j, limit) ==
    IF limit = 0 \/ j > Len(AddrOrder) THEN <<>>
    ELSE IF Has(mem, AddrOrder[j])
         THEN <<[address |-> AddrOrder[j], weight |-> mem[AddrOrder[j]]]>>
                  \o range_take_members(mem, j + 1, limit - 1)
         ELSE range_take_members(mem, j + 1, limit)

query_list_members(mem, start_after, limit) ==
    range_take_members(mem,
                       IF start_after = None THEN 1 ELSE Rank(start_after[1]) + 1,
                       PageLimit(limit))

\* PROPOSALS.load(deps.storage, proposal_id)?
query_get_proposal(store, proposal_id) ==
    IF Has(store, proposal_id) THEN [err |-> Ok, data |-> store[proposal_id]]
    ELSE [err |-> StdNotFound, data |-> None]

\* MEMBERS.load(deps.storage, address)?
query_get_member(mem, address) ==
    IF Has(mem, address)
    THEN [err |-> Ok, data |-> [address |-> address, weight |-> mem[address]]]
    ELSE [err |-> StdNotFound, data |-> None]

\* query takes Deps: the storage is read-only
Query(msg, err, data) ==
    /\ request' = [sender |-> "querier", msg |-> msg]
    /\ result' = [err |-> err, messages |-> <<>>, attributes |-> <<>>, data |-> data]
    /\ UNCHANGED <<members, proposals, balance, created, sent, executedIds, ballots>>

\* the cursors and limits the list queries are asked with
Cursors == {0, 1, 250}
Limits == {0, 1, 2, 251}

GetProposal(id) ==
    LET r == query_get_proposal(proposals, id)
    IN Query(GetProposalMsg(id), r.err, r.data)

ListProposals(start_after, limit) ==
    Query(ListProposalsMsg(start_after, limit), Ok,
          query_list_proposals(proposals, start_after, limit))

GetMember(address) ==
    LET r == query_get_member(members, address)
    IN Query(GetMemberMsg(address), r.err, r.data)

ListMembers(start_after, limit) ==
    Query(ListMembersMsg(start_after, limit), Ok,
          query_list_members(members, start_after, limit))

NextQuery ==
    \/ \E id \in Ids : GetProposal(id)
    \/ \E sa \in Option(Cursors), lim \in Option(Limits) : ListProposals(sa, lim)
    \/ \E a \in Addrs : GetMember(a)
    \/ \E sa \in Option(Addrs), lim \in Option(Limits) : ListMembers(sa, lim)

(* ---------------------------- C14 -------------------------------------- *)
\* The list queries are functions of the storage alone.  They are checked on
\* proposal stores with any set of keys up to MaxKey and on stores longer than
\* a page; every store has the key 0 execute_propose writes or is empty.
MaxKey == 2
BigStores == {251, 252}

StoreOf(keys) ==
    [k \in keys |-> NewProposal(k, "addr1", "Some Title", "Some Description", None, None)]

QueryStores ==
    {StoreOf(keys) : keys \in SUBSET (0..MaxKey)}
        \cup {StoreOf(0..(n - 1)) : n \in BigStores}

InitQuery ==
    /\ members = instantiate(<<[address |-> "addr1", weight |-> 1]>>)
    /\ proposals \in QueryStores
    /\ balance = 0
    /\ request = [sender |-> "creator", msg |-> [type |-> "Instantiate"]]
    /\ result = [err |-> Ok, messages |-> <<>>, attributes |-> <<"action", "instantiate">>]
    /\ created = 0
    /\ sent = EmptyMap
    /\ executedIds = {}
    /\ ballots = EmptyMap

SpecQuery == InitQuery /\ [][NextQuery]_vars

IsListProposals == request.msg.type = "ListProposals"

\* C14: list_proposals(start_after = k, limit = n) returns Ok with, in
\* ascending id order, exactly the first min(n, 250) stored proposals whose id
\* is greater than k (from the smallest id when k is omitted, 250 when n is
\* omitted); a cursor at or beyond the largest stored id yields <<>>.
C14_ListProposalsPage ==
    IsListProposals =>
        LET k == request.msg.start_after
            n == request.msg.limit
            L == result.data
            after == {i \in DOMAIN proposals : k = None \/ i > k[1]}
            page == IF n = None THEN 250 ELSE (IF n[1] < 250 THEN n[1] ELSE 250)
        IN /\ result.err = Ok
           /\ Len(L) = (IF Cardinality(after) < page THEN Cardinality(after) ELSE page)
           /\ \A j \in 1..Len(L) : L[j].id \in after /\ L[j] = proposals[L[j].id]
           /\ \A j \in 1..(Len(L) - 1) : L[j].id < L[j + 1].id
           /\ \A i \in after :
                 (\A j \in 1..Len(L) : L[j].id # i) =>
                     (Len(L) = 0 \/ i > L[Len(L)].id)
           /\ (after = {}) => L = <<>>

\* a page was cut at 250 entries although more proposals follow the cursor
C14_Witness ==
    /\ IsListProposals
    /\ request.msg.start_after = Some(0)
    /\ request.msg.limit = Some(251)
    /\ Cardinality(DOMAIN proposals) = 252
    /\ Len(result.data) = 250
    /\ result.data[1].id = 1

(* ---------------------------- C15 -------------------------------------- *)
\* the handlers and the queries together, from two rosters: one member and a
\* stranger, and two members of different weights
AllRosters ==
    {<<[address |-> "addr1", weight |-> 2]>>,
     <<[address |-> "addr1", weight |-> 1], [address |-> "addr2", weight |-> 2]>>}

InitAll ==
    /\ \E list \in AllRosters : members = instantiate(list)
    /\ proposals = EmptyMap
    /\ balance = 0
    /\ request = [sender |-> "creator", msg |-> [type |-> "Instantiate"]]
    /\ result = [err |-> Ok, messages |-> <<>>, attributes |-> <<"action", "instantiate">>]
    /\ created = 0
    /\ sent = EmptyMap
    /\ executedIds = {}
    /\ ballots = EmptyMap

SpecAll == InitAll /\ [][Next \/ NextQuery]_vars

\* C15: MEMBERS is frozen after instantiate: no Propose, Vote, Execute or
\* query, whether it returns Ok or an error, adds or removes a member or
\* changes a weight.
C15_RosterFrozen == [][members' = members]_vars

\* Propose, Vote and Execute have all returned Ok, an unauthorized call was
\* refused, and a query is the last invocation
C15_Witness ==
    /\ request.msg.type = "ListMembers"
    /\ Len(result.data) = 1
    /\ created = 2
    /\ 0 \in executedIds
    /\ \E i \in DOMAIN proposals : proposals[i].voters # {}

(* ---------------------------- C16 -------------------------------------- *)
\* the step is the Vote invocation that request' records
VoteCall ==
    /\ request'.msg.type = "Vote"
    /\ Vote(request'.sender, request'.msg.proposal_id, request'.msg.approve)

\* the stored proposal after a vote of the given weight by s was counted
Counted(p, s, weight, approve) ==
    IF approve
    THEN [p EXCEPT !.votes_for = p.votes_for + weight, !.voters = p.voters \cup {s}]
    ELSE [p EXCEPT !.votes_against = p.votes_against + weight,
                   !.voters = p.voters \cup {s}]

\* the tally the vote adds to does not fit Uint128 afterwards
TallyTooLarge(p, weight, approve) ==
    (IF approve THEN p.votes_for ELSE p.votes_against) + weight > Uint128Max

\* C16 (as claimed): on an executed proposal a member already in voters gets
\* MemberAlreadyVoted, and a member not yet in voters votes successfully: the
\* weight is added to the tally, the member to voters, executed stays true.
C16_VoteIgnoresExecuted ==
    [][ (/\ request'.msg.type = "Vote"
         /\ Stored(request'.msg.proposal_id)
         /\ proposals[request'.msg.proposal_id].executed
         /\ request'.sender \in DOMAIN members
         /\ VoteCall) =>
           LET i == request'.msg.proposal_id
               s == request'.sender
           IN IF s \in proposals[i].voters
              THEN result'.err = MemberAlreadyVoted /\ proposals' = proposals
              ELSE /\ result'.err = Ok
                   /\ proposals'[i] =
                         Counted(proposals[i], s, members[s], request'.msg.approve)
                   /\ proposals'[i].executed ]_vars

\* C16 (amended): ... a member not yet in voters votes successfully unless
\* adding the weight makes the tally exceed Uint128::MAX, in which case the
\* invocation panics and the proposal is unchanged.
C16_VoteIgnoresExecutedUnlessOverflow ==
    [][ (/\ request'.msg.type = "Vote"
         /\ Stored(request'.msg.proposal_id)
         /\ proposals[request'.msg.proposal_id].executed
         /\ request'.sender \in DOMAIN members
         /\ VoteCall) =>
           LET i == request'.msg.proposal_id
               s == request'.sender
           IN IF s \in proposals[i].voters
              THEN result'.err = MemberAlreadyVoted /\ proposals' = proposals
              ELSE IF TallyTooLarge(proposals[i], members[s], request'.msg.approve)
              THEN result'.err = PanicOverflow /\ proposals' = proposals
              ELSE /\ result'.err = Ok
                   /\ proposals'[i] =
                         Counted(proposals[i], s, members[s], request'.msg.approve)
                   /\ proposals'[i].executed ]_vars

\* a member voted against a proposal after it was executed, and was counted
C16_Witness ==
    \E i \in DOMAIN proposals :
        /\ IsVote(i) /\ result.err = Ok
        /\ proposals[i].executed
        /\ request.sender \in proposals[i].voters
        /\ ~request.msg.approve
        /\ proposals[i].votes_against > 0

(* ---------------------------- C17 -------------------------------------- *)
\* the step is the Execute invocation that request' records
ExecuteCall ==
    /\ request'.msg.type = "Execute"
    /\ Execute(request'.sender, request'.msg.proposal_id)

\* C17: every message an Execute emits is one BankMsg::Send of the stored
\* proposal's amount in udevcore to its recipient, with amount > 0 and
\* amount <= the balance at the call, and the same invocation sets executed.
C17_TransferMatchesProposal ==
    [][ (result'.messages # <<>> /\ ExecuteCall) =>
          LET i == request'.msg.proposal_id
          IN /\ Stored(i)
             /\ result'.err = Ok
             /\ result'.messages =
                   <<[to_address |-> proposals[i].recipient,
                      denom |-> "udevcore",
                      amount |-> proposals[i].amount]>>
             /\ proposals[i].amount > 0
             /\ proposals[i].amount <= balance
             /\ ~proposals[i].executed
             /\ proposals'[i].executed
             /\ proposals'[i].recipient = proposals[i].recipient
             /\ proposals'[i].amount = proposals[i].amount ]_vars

\* a transfer to the named recipient was emitted
C17_Witness ==
    \E i \in DOMAIN proposals :
        /\ IsExecute(i) /\ result.err = Ok
        /\ result.messages = <<BankSend("recipient_address", 1)>>
        /\ proposals[i].executed
        /\ sent[i] = 1

(* ---------------------------- C18 -------------------------------------- *)
\* C18 (as claimed): Vote checks in a fixed order: a caller who is not a
\* member gets Unauthorized even for an unknown id, a member voting on an
\* unknown id gets ProposalDoesNotExist, MemberAlreadyVoted is returned only to
\* a member on a stored proposal, and in every other case the vote returns Ok.
C18_VoteErrorOrder ==
    [][ VoteCall =>
          LET i == request'.msg.proposal_id
              s == request'.sender
              e == result'.err
          IN /\ (s \notin DOMAIN members) => e = Unauthorized
             /\ (s \in DOMAIN members /\ ~Stored(i)) => e = ProposalDoesNotExist
             /\ (e = MemberAlreadyVoted) => (s \in DOMAIN members /\ Stored(i))
             /\ (e \notin {Unauthorized, ProposalDoesNotExist, MemberAlreadyVoted})
                    => e = Ok ]_vars

\* C18 (amended): ... and in every other case the vote returns Ok, unless
\* adding the caller's weight makes the tally exceed Uint128::MAX: then the
\* invocation panics.
C18_VoteErrorOrderUnlessOverflow ==
    [][ VoteCall =>
          LET i == request'.msg.proposal_id
              s == request'.sender
              e == result'.err
          IN /\ (s \notin DOMAIN members) => e = Unauthorized
             /\ (s \in DOMAIN members /\ ~Stored(i)) => e = ProposalDoesNotExist
             /\ (e = MemberAlreadyVoted) => (s \in DOMAIN members /\ Stored(i))
             /\ (e \notin {Unauthorized, ProposalDoesNotExist, MemberAlreadyVoted}) =>
                    IF TallyTooLarge(proposals[i], members[s], request'.msg.approve)
                    THEN e = PanicOverflow
                    ELSE e = Ok ]_vars

\* a stranger voted on an unknown id while a proposal was stored
C18_Witness ==
    /\ request.msg.type = "Vote"
    /\ request.sender \notin DOMAIN members
    /\ ~Stored(request.msg.proposal_id)
    /\ result.err = Unauthorized
    /\ DOMAIN proposals # {}

(* ---------------------------- C19 -------------------------------------- *)
\* C19: Execute is permissionless: for every caller, member or not, the error
\* kind, the change of the store and the emitted message are those the stored
\* proposal and the balance determine; in particular a caller who is not a
\* member executes a passed, funded proposal and triggers the transfer.
C19_ExecutePermissionless ==
    [][ ExecuteCall =>
          LET i == request'.msg.proposal_id
          IN IF ~Stored(i)
             THEN result'.err = StdNotFound /\ proposals' = proposals
                     /\ result'.messages = <<>>
             ELSE IF proposals[i].executed
             THEN result'.err = AlreadyExecuted /\ proposals' = proposals
                     /\ result'.messages = <<>>
             ELSE IF proposals[i].votes_for <= proposals[i].votes_against
             THEN result'.err = Ok /\ proposals' = proposals
                     /\ result'.messages = <<>>
             ELSE IF balance < proposals[i].amount
             THEN result'.err = InsufficientFunds /\ proposals' = proposals
                     /\ result'.messages = <<>>
             ELSE /\ result'.err = Ok
                  /\ proposals' = [proposals EXCEPT ![i].executed = TRUE]
                  /\ result'.messages =
                        (IF proposals[i].amount = 0 THEN <<>>
                         ELSE <<[to_address |-> proposals[i].recipient,
                                 denom |-> "udevcore",
                                 amount |-> proposals[i].amount]>>) ]_vars

\* a caller who is not a member executed a proposal and released the funds
C19_Witness ==
    \E i \in DOMAIN proposals :
        /\ IsExecute(i) /\ result.err = Ok
        /\ request.sender \notin DOMAIN members
        /\ proposals[i].executed
        /\ result.messages # <<>>

(* ---------------------------- C20 -------------------------------------- *)
\* execute is called again and again for every proposal id: an Execute
\* invocation that stays possible is eventually made. The rosters are those
\* of AllRosters: one member who decides alone, and two members of whom the
\* heavier outvotes the lighter.
SpecLive == InitAll /\ [][Next]_vars /\ \A id \in Ids : WF_vars(ExecuteStep(id))

\* a step that is neither a Propose nor a Vote invocation
NoProposeOrVote ==
    /\ ~ProposeStep
    /\ ~(\E s \in Addrs, id \in Ids : VoteStep(s, id))

\* proposal i is stored and, while it is open, it has votes_for > votes_against
\* and the balance covers its amount
Releasable(i) ==
    /\ Stored(i)
    /\ (~proposals[i].executed =>
           /\ proposals[i].votes_for > proposals[i].votes_against
           /\ balance >= proposals[i].amount)

\* C20: for every proposal, if from some point on no Propose and no Vote is
\* invoked, the proposal stays passed and the balance stays at least its amount
\* for as long as it is open, and execute keeps being called on it (weak
\* fairness, SpecLive), then the proposal eventually has executed = true and
\* keeps it for ever.
C20_FundReleaseLiveness ==
    \A i \in Ids :
        (<>[][NoProposeOrVote]_vars /\ <>[]Releasable(i))
            => <>[](Stored(i) /\ proposals[i].executed)

\* a passed proposal with a positive amount was executed by an Execute call
\* that used up the whole balance
C20_Witness ==
    \E i \in DOMAIN proposals :
        /\ IsExecute(i) /\ result.err = Ok
        /\ proposals[i].executed
        /\ proposals[i].votes_for > proposals[i].votes_against
        /\ proposals[i].amount > 0
        /\ i \in executedIds
        /\ balance = 0

====
